---- MODULE Spec2Model ----
(***************************************************************************)
(* Model of src/main.py: the PDF word-frequency analyser.                  *)
(*                                                                         *)
(* Words, lines and texts are sequences of one-character strings, so that  *)
(* the character-level operations of the program (replace, lower, strip,   *)
(* the \b\w+\b tokenizer, isdigit, len, suffix rules) are computed and not *)
(* assumed.  The WordNet lexicon and the stopword list are external data;  *)
(* the model carries the entries of them that its vocabulary touches.      *)
(***************************************************************************)
EXTENDS Integers, Sequences, FiniteSets, TLC

(***************************************************************************)
(* Bounds of the model.                                                    *)
(***************************************************************************)
MaxPages == 2
MaxKnownLines == 1
MaxTopN == 1

(***************************************************************************)
(* Characters.                                                             *)
(***************************************************************************)
Digits == {"0", "1", "2", "3", "4", "5", "6", "7", "8", "9"}
LowerLetters == {"a", "b", "c", "d", "e", "f", "g", "h", "i", "j", "k", "l", "m",
                 "n", "o", "p", "q", "r", "s", "t", "u", "v", "w", "x", "y", "z"}
UpperLetters == {"A", "B", "C", "D", "E", "F", "G", "H", "I", "J", "K", "L", "M",
                 "N", "O", "P", "Q", "R", "S", "T", "U", "V", "W", "X", "Y", "Z"}
WordChars == Digits \cup LowerLetters \cup UpperLetters \cup {"_"}
Whitespace == {" ", "\n", "\t", "\r"}

LowerChar(c) ==
    CASE c = "A" -> "a" [] c = "B" -> "b" [] c = "C" -> "c" [] c = "D" -> "d"
      [] c = "E" -> "e" [] c = "F" -> "f" [] c = "G" -> "g" [] c = "H" -> "h"
      [] c = "I" -> "i" [] c = "J" -> "j" [] c = "K" -> "k" [] c = "L" -> "l"
      [] c = "M" -> "m" [] c = "N" -> "n" [] c = "O" -> "o" [] c = "P" -> "p"
      [] c = "Q" -> "q" [] c = "R" -> "r" [] c = "S" -> "s" [] c = "T" -> "t"
      [] c = "U" -> "u" [] c = "V" -> "v" [] c = "W" -> "w" [] c = "X" -> "x"
      [] c = "Y" -> "y" [] c = "Z" -> "z" [] OTHER -> c

\* str.lower()
Lower(s) == [i \in 1..Len(s) |-> LowerChar(s[i])]

\* str.strip()
RECURSIVE LStrip(_)
LStrip(s) == IF s # <<>> /\ Head(s) \in Whitespace THEN LStrip(Tail(s)) ELSE s

RECURSIVE RStrip(_)
RStrip(s) ==
    IF s # <<>> /\ s[Len(s)] \in Whitespace THEN RStrip(SubSeq(s, 1, Len(s) - 1)) ELSE s

\* a variant of strip that strips nothing (if not text:)
MutStrip(s) == s

Strip(s) == RStrip(LStrip(s))

\* str.isdigit()
IsDigit(s) == s # <<>> /\ \A i \in 1..Len(s) : s[i] \in Digits

\* str.endswith(suffix) and str.startswith(prefix)
EndsWith(s, suf) ==
    /\ Len(suf) <= Len(s)
    /\ SubSeq(s, Len(s) - Len(suf) + 1, Len(s)) = suf

StartsWith(s, pre) == Len(pre) <= Len(s) /\ SubSeq(s, 1, Len(pre)) = pre

\* a variant that turns the hyphen and the line break into a space
RECURSIVE MutRemoveHyphenNewline(_)
MutRemoveHyphenNewline(s) ==
    IF s = <<>> THEN <<>>
    ELSE IF Len(s) >= 2 /\ s[1] = "-" /\ s[2] = "\n"
         THEN <<" ">> \o MutRemoveHyphenNewline(SubSeq(s, 3, Len(s)))
         ELSE <<Head(s)>> \o MutRemoveHyphenNewline(Tail(s))

\* text.replace('-\n', '')
RECURSIVE RemoveHyphenNewline(_)
RemoveHyphenNewline(s) ==
    IF s = <<>> THEN <<>>
    ELSE IF Len(s) >= 2 /\ s[1] = "-" /\ s[2] = "\n"
         THEN RemoveHyphenNewline(SubSeq(s, 3, Len(s)))
         ELSE <<Head(s)>> \o RemoveHyphenNewline(Tail(s))

\* text.replace('\n', ' ')
NewlineToSpace(s) == [i \in 1..Len(s) |-> IF s[i] = "\n" THEN " " ELSE s[i]]

\* re.findall(r'\b\w+\b', s): the maximal runs of word characters, in order
RECURSIVE FindWords(_, _)
FindWords(s, cur) ==
    IF s = <<>> THEN (IF cur = <<>> THEN <<>> ELSE <<cur>>)
    ELSE IF Head(s) \in WordChars THEN FindWords(Tail(s), Append(cur, Head(s)))
         ELSE (IF cur = <<>> THEN <<>> ELSE <<cur>>) \o FindWords(Tail(s), <<>>)

RECURSIVE Flatten(_)
Flatten(ss) == IF ss = <<>> THEN <<>> ELSE Head(ss) \o Flatten(Tail(ss))

Range(s) == {s[i] : i \in 1..Len(s)}

\* the value None, where a word or a text is expected
None == <<"<None>">>

(***************************************************************************)
(* The vocabulary.                                                         *)
(***************************************************************************)
w_the == <<"t", "h", "e">>
w_are == <<"a", "r", "e">>
w_do == <<"d", "o">>
w_cat == <<"c", "a", "t">>
w_cats == <<"c", "a", "t", "s">>
w_catcat == <<"c", "a", "t", "c", "a", "t">>
w_run == <<"r", "u", "n">>
w_runs == <<"r", "u", "n", "s">>
w_running == <<"r", "u", "n", "n", "i", "n", "g">>
w_fast == <<"f", "a", "s", "t">>
w_done == <<"d", "o", "n", "e">>

\* stop_words = set(stopwords.words('english')): the entries the vocabulary touches
stop_words == {w_the, w_are, w_do}

(***************************************************************************)
(* WordNet (nltk.corpus.wordnet) restricted to the vocabulary.             *)
(***************************************************************************)
NOUN == "n"
VERB == "v"
ADJ == "a"
ADV == "r"
POS_LIST == <<NOUN, VERB, ADJ, ADV>>

\* the lemmas of the lexicon, with the parts of speech each is listed under
LemmaPos(form) ==
    CASE form = w_cat -> {NOUN, VERB}
      [] form = w_run -> {NOUN, VERB}
      [] form = w_running -> {NOUN, ADJ}
      [] form = w_fast -> {NOUN, VERB, ADJ, ADV}
      [] form = w_do -> {NOUN, VERB}
      [] form = w_done -> {ADJ}
      [] OTHER -> {}

\* the exception lists (noun.exc, verb.exc, adj.exc, adv.exc)
ExceptionForms(form, pos) ==
    CASE pos = VERB /\ form = w_running -> <<w_run>>
      [] pos = VERB /\ form = w_done -> <<w_do>>
      [] OTHER -> <<>>

\* MORPHOLOGICAL_SUBSTITUTIONS
Substitutions(pos) ==
    CASE pos = NOUN -> << <<<<"s">>, <<>>>>,
                          <<<<"s", "e", "s">>, <<"s">>>>,
                          <<<<"v", "e", "s">>, <<"f">>>>,
                          <<<<"x", "e", "s">>, <<"x">>>>,
                          <<<<"z", "e", "s">>, <<"z">>>>,
                          <<<<"c", "h", "e", "s">>, <<"c", "h">>>>,
                          <<<<"s", "h", "e", "s">>, <<"s", "h">>>>,
                          <<<<"m", "e", "n">>, <<"m", "a", "n">>>>,
                          <<<<"i", "e", "s">>, <<"y">>>> >>
      [] pos = VERB -> << <<<<"s">>, <<>>>>,
                          <<<<"i", "e", "s">>, <<"y">>>>,
                          <<<<"e", "s">>, <<"e">>>>,
                          <<<<"e", "s">>, <<>>>>,
                          <<<<"e", "d">>, <<"e">>>>,
                          <<<<"e", "d">>, <<>>>>,
                          <<<<"i", "n", "g">>, <<"e">>>>,
                          <<<<"i", "n", "g">>, <<>>>> >>
      [] pos = ADJ -> << <<<<"e", "r">>, <<>>>>,
                         <<<<"e", "s", "t">>, <<>>>>,
                         <<<<"e", "r">>, <<"e">>>>,
                         <<<<"e", "s", "t">>, <<"e">>>> >>
      [] OTHER -> <<>>

\* apply_rules: every substitution that matches, for every form, in order
RECURSIVE RulesOn(_, _)
RulesOn(form, subs) ==
    IF subs = <<>> THEN <<>>
    ELSE (IF EndsWith(form, Head(subs)[1])
          THEN <<SubSeq(form, 1, Len(form) - Len(Head(subs)[1])) \o Head(subs)[2]>>
          ELSE <<>>) \o RulesOn(form, Tail(subs))

RECURSIVE ApplyRules(_, _)
ApplyRules(forms, pos) ==
    IF forms = <<>> THEN <<>>
    ELSE RulesOn(Head(forms), Substitutions(pos)) \o ApplyRules(Tail(forms), pos)

\* filter_forms: the forms the lexicon lists under pos, first occurrences only
RECURSIVE FilterForms(_, _, _)
FilterForms(forms, pos, seen) ==
    IF forms = <<>> THEN <<>>
    ELSE IF pos \in LemmaPos(Head(forms)) /\ Head(forms) \notin seen
         THEN <<Head(forms)>> \o FilterForms(Tail(forms), pos, seen \cup {Head(forms)})
         ELSE FilterForms(Tail(forms), pos, seen)

\* step 3 of _morphy: keep applying the rules until a form is found
RECURSIVE MorphyLoop(_, _)
MorphyLoop(forms, pos) ==
    IF forms = <<>> THEN <<>>
    ELSE LET next == ApplyRules(forms, pos)
             results == FilterForms(next, pos, {})
         IN IF results # <<>> THEN results ELSE MorphyLoop(next, pos)

\* wordnet._morphy(form, pos)
MorphyPos(form, pos) ==
    IF ExceptionForms(form, pos) # <<>>
    THEN FilterForms(<<form>> \o ExceptionForms(form, pos), pos, {})
    ELSE LET forms == ApplyRules(<<form>>, pos)
             results == FilterForms(<<form>> \o forms, pos, {})
         IN IF results # <<>> THEN results ELSE MorphyLoop(forms, pos)

\* min(lemmas, key=len): the first of the shortest
RECURSIVE MinByLen(_)
MinByLen(lemmas) ==
    IF Len(lemmas) = 1 THEN Head(lemmas)
    ELSE LET rest == MinByLen(Tail(lemmas))
         IN IF Len(Head(lemmas)) <= Len(rest) THEN Head(lemmas) ELSE rest

\* WordNetLemmatizer.lemmatize(word, pos)
Lemmatize(word, pos) ==
    LET lemmas == MorphyPos(word, pos)
    IN IF lemmas # <<>> THEN MinByLen(lemmas) ELSE word

\* wordnet.morphy(form, pos), the lookup scoped by a category that section 4.3 of
\* the specification describes: the first analysis under pos, or None
MorphyScoped(form, pos) ==
    LET analyses == MorphyPos(form, pos)
    IN IF analyses # <<>> THEN Head(analyses) ELSE None

\* wordnet.morphy(form) with pos=None: the first analysis over POS_LIST, or None
Morphy(form) ==
    LET analyses == Flatten([i \in 1..Len(POS_LIST) |-> MorphyPos(form, POS_LIST[i])])
    IN IF analyses # <<>> THEN Head(analyses) ELSE None

\* get_wordnet_pos(tag)
get_wordnet_pos(tag) ==
    IF StartsWith(tag, <<"J">>) THEN ADJ
    ELSE IF StartsWith(tag, <<"V">>) THEN VERB
    ELSE IF StartsWith(tag, <<"N">>) THEN NOUN
    ELSE IF StartsWith(tag, <<"R">>) THEN ADV
    ELSE NOUN

\* a variant of normalize_word that leaves the morphy fallback out
MutNormalizeWord(word, tag) == Lemmatize(word, IF tag = "<None>" THEN NOUN ELSE tag)

\* the default tag=None of normalize_word
NoTag == "<None>"

\* normalize_word(word, tag)
normalize_word(word, tag) ==
    LET lemma == Lemmatize(word, IF tag = NoTag THEN NOUN ELSE tag)
        morphed == Morphy(lemma)
    IN IF morphed # None THEN morphed ELSE lemma

(***************************************************************************)
(* collections.Counter: a sequence of <<word, count>> in insertion order.  *)
(***************************************************************************)
CounterAdd(c, w) ==
    IF \E i \in 1..Len(c) : c[i][1] = w
    THEN [i \in 1..Len(c) |-> IF c[i][1] = w THEN <<w, c[i][2] + 1>> ELSE c[i]]
    ELSE Append(c, <<w, 1>>)

\* Counter(iterable)
RECURSIVE CounterFrom(_, _)
CounterFrom(ws, c) ==
    IF ws = <<>> THEN c ELSE CounterFrom(Tail(ws), CounterAdd(c, Head(ws)))

Counter(ws) == CounterFrom(ws, <<>>)

Keys(c) == {c[i][1] : i \in 1..Len(c)}

\* c.get(w, 0)
Get(c, w) ==
    IF w \in Keys(c) THEN (CHOOSE r \in Range(c) : r[1] = w)[2] ELSE 0

\* a variant of the sort that puts the later of two equal counts first
RECURSIVE MutInsertByCount(_, _)
MutInsertByCount(sorted, item) ==
    IF sorted = <<>> THEN <<item>>
    ELSE IF Head(sorted)[2] > item[2]
         THEN <<Head(sorted)>> \o MutInsertByCount(Tail(sorted), item)
         ELSE <<item>> \o sorted

\* sorted(items, key=itemgetter(1), reverse=True): stable, equal counts keep their order
RECURSIVE InsertByCount(_, _)
InsertByCount(sorted, item) ==
    IF sorted = <<>> THEN <<item>>
    ELSE IF Head(sorted)[2] >= item[2]
         THEN <<Head(sorted)>> \o InsertByCount(Tail(sorted), item)
         ELSE <<item>> \o sorted

RECURSIVE SortByCount(_, _)
SortByCount(items, acc) ==
    IF items = <<>> THEN acc
    ELSE SortByCount(Tail(items), InsertByCount(acc, Head(items)))

\* Counter.most_common(n) = heapq.nlargest(n, items, key=count) = sorted(...)[:n]
most_common(c, n) ==
    LET sorted == SortByCount(c, <<>>)
    IN SubSeq(sorted, 1, IF n < Len(sorted) THEN n ELSE Len(sorted))

(***************************************************************************)
(* The inputs of a run.                                                    *)
(***************************************************************************)
\* the scenario text "The cats are running. Cat-\nCat runs fast."
ScenarioText ==
    <<"T", "h", "e", " ", "c", "a", "t", "s", " ", "a", "r", "e", " ",
      "r", "u", "n", "n", "i", "n", "g", ".", " ", "C", "a", "t", "-", "\n",
      "C", "a", "t", " ", "r", "u", "n", "s", " ", "f", "a", "s", "t", ".">>
ScenarioTopN == 10

\* a page whose tokens are all dropped: a stopword, a number, a short word
NoisePage == <<"T", "h", "e", " ", "1", "2", "3", "\n", "o", "x">>

\* what page.extract_text() may return for a page
PageTexts == {None, <<" ">>, w_running, w_done, NoisePage}

RECURSIVE SeqsUpTo(_, _)
SeqsUpTo(S, n) ==
    IF n = 0 THEN {<<>>}
    ELSE LET shorter == SeqsUpTo(S, n - 1)
         IN shorter \cup {Append(q, x) : q \in {r \in shorter : Len(r) = n - 1}, x \in S}

\* the documents: the page texts of a PDF, in page order
Pdfs == SeqsUpTo(PageTexts, MaxPages)

\* the lines of a known-words file
KnownLines == {<<"R", "u", "n", "n", "i", "n", "g", " ", "\n">>, <<" ", "\n">>}
KnownFiles == SeqsUpTo(KnownLines, MaxKnownLines)
NoFile == <<None>>

\* the tags of nltk.pos_tag (Penn Treebank) the tagger is taken to choose from
RawTags == {<<"J", "J">>, <<"V", "B", "G">>, <<"N", "N">>, <<"R", "B">>, <<"C", "D">>}

PdfPaths == {<<"a", ".", "P", "D", "F">>, <<"a", ".", "t", "x", "t">>}
NoPath == "<None>"
TopNs == 0..MaxTopN

(***************************************************************************)
(* The functions of main.py.                                               *)
(***************************************************************************)
\* load_known_words, lines 48-52: the loop over the lines of the file
RECURSIVE LoadLines(_, _)
LoadLines(lines, known) ==
    IF lines = <<>> THEN known
    ELSE LET w == Lower(Strip(Head(lines)))
         IN LoadLines(Tail(lines),
                      IF w # <<>> THEN known \cup {normalize_word(w, NoTag)} ELSE known)

\* load_known_words(filepath), given the file system
load_known_words(filepath, file) ==
    IF filepath \notin {NoPath, ""} /\ file # NoFile
    THEN LoadLines(file, {})
    ELSE {}

\* line 61: the filter of clean_and_lemmatize
KeepWord(w) == w \notin stop_words /\ ~IsDigit(w) /\ Len(w) >= 3

RECURSIVE FilterWords(_)
FilterWords(ws) ==
    IF ws = <<>> THEN <<>>
    ELSE (IF KeepWord(Head(ws)) THEN <<Head(ws)>> ELSE <<>>) \o FilterWords(Tail(ws))

\* lines 59-61: the tokens clean_and_lemmatize hands to the tagger
CleanWords(t) == FilterWords(FindWords(Lower(NewlineToSpace(RemoveHyphenNewline(t))), <<>>))

\* lines 66-69: the lemma of each tagged word
LemmatizeTagged(ws, tags) ==
    [i \in 1..Len(ws) |-> normalize_word(ws[i], get_wordnet_pos(tags[i]))]

\* process_pdf, lines 78-81: the text of the pages
RECURSIVE ExtractText(_)
ExtractText(pages) ==
    IF pages = <<>> THEN <<>>
    ELSE (IF Head(pages) # None /\ Head(pages) # <<>> THEN Head(pages) \o <<" ">> ELSE <<>>)
         \o ExtractText(Tail(pages))

\* a variant of line 173 without its condition
MutKnownOf(ws, known) == ws

\* lines 173-174: the two list comprehensions of main
RECURSIVE KnownOf(_, _)
KnownOf(ws, known) ==
    IF ws = <<>> THEN <<>>
    ELSE (IF Head(ws) \in known THEN <<Head(ws)>> ELSE <<>>) \o KnownOf(Tail(ws), known)

\* a variant of line 174 without its condition
MutUnknownOf(ws, known) == ws

RECURSIVE UnknownOf(_, _)
UnknownOf(ws, known) ==
    IF ws = <<>> THEN <<>>
    ELSE (IF Head(ws) \notin known THEN <<Head(ws)>> ELSE <<>>) \o UnknownOf(Tail(ws), known)

\* save_word_freq_csv(word_freq, output_path, top_n): the rows under the header
NoTopN == -1
CsvRows(word_freq, n) == IF n = NoTopN THEN word_freq ELSE most_common(word_freq, n)

\* save_wordcloud(word_freq, output_path, top_n): top_words, in dict order
CloudWords(word_freq, n) == most_common(word_freq, n)

(***************************************************************************)
(* The state of a run of main().                                           *)
(***************************************************************************)
VARIABLES
    pc,                 \* where main() is
    exit_code,          \* -1 while running, then the exit status of the process
    pdf_path,           \* args.pdf_path
    pdf_isfile,         \* os.path.isfile(pdf_path)
    top_n,              \* args.num_top_words
    known_words_file,   \* args.known_words_file
    known_file,         \* the lines of that file, NoFile when it is not a file
    dir_made,           \* os.makedirs has been called and has returned
    load_called,        \* load_known_words has been called
    known_words,        \* the Known-Word Set
    extract_called,     \* pdfplumber.open has been called
    text,               \* the extracted text, None before extraction and on failure
    clean_called,       \* clean_and_lemmatize has been called
    words,              \* the filtered tokens handed to the tagger
    wn_tags,            \* the WordNet category of each token
    lemmatized_words,   \* the lemma stream, NoData when process_pdf gave None
    tables_built,       \* lines 176-178 have run
    excluded_freq, unknown_freq, all_freq,
    reports             \* the report steps invoked, in order

vars == <<pc, exit_code, pdf_path, pdf_isfile, top_n, known_words_file, known_file,
          dir_made, load_called, known_words, extract_called, text,
          clean_called, words, wn_tags, lemmatized_words, tables_built,
          excluded_freq, unknown_freq, all_freq, reports>>

args == <<pdf_path, pdf_isfile, top_n, known_words_file, known_file>>
NoData == <<None>>

\* the state when main() starts, with the number of top words drawn from topNs
InitOf(topNs) ==
    /\ pc = "validate"
    /\ exit_code = -1
    /\ pdf_path \in PdfPaths
    /\ pdf_isfile \in BOOLEAN
    /\ top_n \in topNs
    /\ known_words_file \in {NoPath, "known.txt"}
    /\ known_file \in IF known_words_file = NoPath THEN {NoFile} ELSE KnownFiles \cup {NoFile}
    /\ dir_made = FALSE
    /\ load_called = FALSE
    /\ known_words = {}
    /\ extract_called = FALSE
    /\ text = None
    /\ clean_called = FALSE
    /\ words = <<>>
    /\ wn_tags = <<>>
    /\ lemmatized_words = NoData
    /\ tables_built = FALSE
    /\ excluded_freq = <<>>
    /\ unknown_freq = <<>>
    /\ all_freq = <<>>
    /\ reports = <<>>

Init == InitOf(TopNs)

\* sys.exit(1)
Exit1 == pc' = "exited" /\ exit_code' = 1

\* a variant of the checks that lets top_n = 0 through
MutValidate ==
    /\ pc = "validate"
    /\ IF ~pdf_isfile \/ ~EndsWith(Lower(pdf_path), <<".", "p", "d", "f">>)
       THEN Exit1
       ELSE IF top_n < 0
            THEN Exit1
            ELSE pc' = "mkdir" /\ exit_code' = exit_code
    /\ UNCHANGED <<args, dir_made, load_called, known_words, extract_called, text,
                   clean_called, words, wn_tags, lemmatized_words, tables_built,
                   excluded_freq, unknown_freq, all_freq, reports>>

\* main, lines 147-153: the checks of the arguments
Validate ==
    /\ pc = "validate"
    /\ IF ~pdf_isfile \/ ~EndsWith(Lower(pdf_path), <<".", "p", "d", "f">>)
       THEN Exit1
       ELSE IF top_n <= 0
            THEN Exit1
            ELSE pc' = "mkdir" /\ exit_code' = exit_code
    /\ UNCHANGED <<args, dir_made, load_called, known_words, extract_called, text,
                   clean_called, words, wn_tags, lemmatized_words, tables_built,
                   excluded_freq, unknown_freq, all_freq, reports>>

\* main, lines 155-166: the output directory
MakeOutputDir ==
    /\ pc = "mkdir"
    /\ \E output_dir \in {NoPath, "out"}, isdir \in BOOLEAN, fails \in BOOLEAN :
         IF output_dir # NoPath
         THEN IF isdir
              THEN pc' = "load" /\ exit_code' = exit_code /\ dir_made' = FALSE
              ELSE IF fails
                   THEN Exit1 /\ dir_made' = FALSE
                   ELSE pc' = "load" /\ exit_code' = exit_code /\ dir_made' = TRUE
         ELSE IF fails
              THEN pc' = "crashed" /\ exit_code' = 1 /\ dir_made' = FALSE
              ELSE pc' = "load" /\ exit_code' = exit_code /\ dir_made' = TRUE
    /\ UNCHANGED <<args, load_called, known_words, extract_called, text,
                   clean_called, words, wn_tags, lemmatized_words, tables_built,
                   excluded_freq, unknown_freq, all_freq, reports>>

\* main, line 168
LoadKnownWords ==
    /\ pc = "load"
    /\ load_called' = TRUE
    /\ known_words' = load_known_words(known_words_file, known_file)
    /\ pc' = "process"
    /\ UNCHANGED <<exit_code, args, dir_made, extract_called, text,
                   clean_called, words, wn_tags, lemmatized_words, tables_built,
                   excluded_freq, unknown_freq, all_freq, reports>>

\* main, lines 169-171, with process_pdf and clean_and_lemmatize, on a document of docs
ProcessPdfOf(docs) ==
    /\ pc = "process"
    /\ extract_called' = TRUE
    /\ \/ \* pdfplumber raises: process_pdf returns None
          /\ text' = None
          /\ UNCHANGED <<clean_called, words, wn_tags, lemmatized_words>>
          /\ Exit1
       \/ \E pages \in docs :
            LET t == ExtractText(pages)
            IN /\ text' = t
               /\ IF Strip(t) = <<>>
                  THEN /\ UNCHANGED <<clean_called, words, wn_tags, lemmatized_words>>
                       /\ Exit1
                  ELSE LET ws == CleanWords(t)
                       IN \E tags \in [1..Len(ws) -> RawTags] :
                            /\ clean_called' = TRUE
                            /\ words' = ws
                            /\ wn_tags' = [i \in 1..Len(ws) |-> get_wordnet_pos(tags[i])]
                            /\ lemmatized_words' = LemmatizeTagged(ws, tags)
                            /\ pc' = "classify"
                            /\ exit_code' = exit_code
    /\ UNCHANGED <<args, dir_made, load_called, known_words, tables_built,
                   excluded_freq, unknown_freq, all_freq, reports>>

ProcessPdf == ProcessPdfOf(Pdfs)

\* main, lines 173-178: the three frequency tables
Classify ==
    /\ pc = "classify"
    /\ excluded_freq' = Counter(KnownOf(lemmatized_words, known_words))
    /\ unknown_freq' = Counter(UnknownOf(lemmatized_words, known_words))
    /\ all_freq' = Counter(lemmatized_words)
    /\ tables_built' = TRUE
    /\ pc' = "report"
    /\ UNCHANGED <<exit_code, args, dir_made, load_called, known_words, extract_called,
                   text, clean_called, words, wn_tags, lemmatized_words, reports>>

\* the report steps of lines 183-196, in order
ReportSteps ==
    << [step |-> "unknown_csv", cloud |-> FALSE, rows |-> CsvRows(unknown_freq, top_n)],
       [step |-> "unknown_cloud", cloud |-> TRUE, rows |-> CloudWords(unknown_freq, top_n)],
       [step |-> "excluded_csv", cloud |-> FALSE, rows |-> CsvRows(excluded_freq, NoTopN)],
       [step |-> "all_csv", cloud |-> FALSE, rows |-> CsvRows(all_freq, NoTopN)],
       [step |-> "all_cloud", cloud |-> TRUE, rows |-> CloudWords(all_freq, top_n)] >>

\* WordCloud.generate_from_frequencies raises ValueError when given no word
Raises(r) == r.cloud /\ r.rows = <<>>

\* the steps invoked: all of them, or those up to the first that raises
Invoked(steps) ==
    IF \E i \in 1..Len(steps) : Raises(steps[i])
    THEN SubSeq(steps, 1, CHOOSE i \in 1..Len(steps) :
                             Raises(steps[i]) /\ \A j \in 1..(i - 1) : ~Raises(steps[j]))
    ELSE steps

\* main, lines 180-199: the reports
Report ==
    /\ pc = "report"
    /\ reports' = Invoked(ReportSteps)
    /\ IF \E i \in 1..Len(ReportSteps) : Raises(ReportSteps[i])
       THEN pc' = "crashed" /\ exit_code' = 1
       ELSE pc' = "done" /\ exit_code' = 0
    /\ UNCHANGED <<args, dir_made, load_called, known_words, extract_called, text,
                   clean_called, words, wn_tags, lemmatized_words, tables_built,
                   excluded_freq, unknown_freq, all_freq>>

Next ==
    \/ Validate
    \/ MakeOutputDir
    \/ LoadKnownWords
    \/ ProcessPdf
    \/ Classify
    \/ Report

Spec == Init /\ [][Next]_vars

(***************************************************************************)
(* The scenario run: the scenario text, an empty known-words list, top 10. *)
(***************************************************************************)
InitScenario ==
    /\ InitOf({ScenarioTopN})
    /\ pdf_isfile /\ EndsWith(Lower(pdf_path), <<".", "p", "d", "f">>)
    /\ known_file \in {NoFile, <<>>}

ProcessScenario == ProcessPdfOf({<<ScenarioText>>})

NextScenario ==
    \/ Validate
    \/ MakeOutputDir
    \/ LoadKnownWords
    \/ ProcessScenario
    \/ Classify
    \/ Report

SpecScenario == InitScenario /\ [][NextScenario]_vars

(***************************************************************************)
(* Properties.                                                             *)
(***************************************************************************)
AllKeys == Keys(all_freq) \cup Keys(excluded_freq) \cup Keys(unknown_freq)
Occurrences(ws, w) == Cardinality({i \in 1..Len(ws) : ws[i] = w})
FirstIndex(ws, w) == CHOOSE i \in 1..Len(ws) : ws[i] = w /\ \A j \in 1..(i - 1) : ws[j] # w
WhitespaceOnly(t) == \A i \in 1..Len(t) : t[i] \in Whitespace
NoKnownFile == known_words_file = NoPath \/ known_file = NoFile
ConfigError ==
    \/ ~pdf_isfile
    \/ ~EndsWith(Lower(pdf_path), <<".", "p", "d", "f">>)
    \/ top_n <= 0

\* C1: once the three tables are built, every lemma's count in the all table is
\* the sum of its counts in the known and unknown tables and is its number of
\* occurrences in the lemma stream; every key of the known table is in the
\* Known-Word Set, no key of the unknown table is, and no lemma is in both.
C1_Partition ==
    tables_built =>
        /\ \A L \in AllKeys \cup Range(lemmatized_words) :
             /\ Get(all_freq, L) = Get(excluded_freq, L) + Get(unknown_freq, L)
             /\ Get(all_freq, L) = Occurrences(lemmatized_words, L)
             /\ ~(Get(excluded_freq, L) > 0 /\ Get(unknown_freq, L) > 0)
        /\ Keys(excluded_freq) \subseteq known_words
        /\ Keys(unknown_freq) \cap known_words = {}

C1_Witness == tables_built /\ excluded_freq # <<>> /\ unknown_freq # <<>>

\* C2: no key of an output table is shorter than 3 characters, all digits, or a
\* stopword.
C2_NoNoiseKeys ==
    tables_built =>
        \A k \in AllKeys : Len(k) >= 3 /\ ~IsDigit(k) /\ k \notin stop_words

\* the words the known-words file lists
ListedWords ==
    IF NoKnownFile THEN {}
    ELSE {Lower(Strip(known_file[i])) : i \in 1..Len(known_file)} \ {<<>>}

\* C3: every document occurrence of a word the known-words file lists gets the
\* lemma that load_known_words inserted for that word, whatever category the
\* tagger gave it, and so is counted in the known table and not in the unknown.
C3_SameNormalization ==
    tables_built =>
        \A i \in 1..Len(words) :
            words[i] \in ListedWords =>
                /\ lemmatized_words[i] = normalize_word(words[i], NoTag)
                /\ lemmatized_words[i] \in Keys(excluded_freq)
                /\ lemmatized_words[i] \notin Keys(unknown_freq)

\* C4: with no known-words path, or a path that is no file, load_known_words
\* gives the empty set, the run goes on, the known table is empty and the
\* unknown table is the all table.
C4_NoKnownFile ==
    (NoKnownFile /\ load_called) =>
        /\ known_words = {}
        /\ pc # "load"
        /\ tables_built => (excluded_freq = <<>> /\ unknown_freq = all_freq)

C4_Witness == NoKnownFile /\ tables_built /\ all_freq # <<>>

\* the scenario text has been extracted and cleaned
ScenarioCleaned == clean_called /\ text = ScenarioText \o <<" ">>

\* the tables of the scenario run have been built
ScenarioRun ==
    /\ ScenarioCleaned
    /\ tables_built
    /\ known_words = {}
    /\ top_n = ScenarioTopN

\* C5 as stated: in the scenario run the all table has cat 3, run 2 and fast 1,
\* the unknown table is the all table and the known table is empty.
C5_ScenarioAsStated ==
    ScenarioRun =>
        /\ Get(all_freq, w_cat) = 3
        /\ Get(all_freq, w_run) = 2
        /\ Get(all_freq, w_fast) = 1
        /\ unknown_freq = all_freq
        /\ excluded_freq = <<>>

\* C5 amended: in the scenario run the tokens are cats, running, catcat, runs,
\* fast; the all table has cat 1, catcat 1 and fast 1, and run 2 when the tagger
\* makes "running" a verb, run 1 and running 1 otherwise; the unknown table is
\* the all table and the known table is empty.
C5_Scenario ==
    /\ ScenarioCleaned => words = <<w_cats, w_running, w_catcat, w_runs, w_fast>>
    /\ ScenarioRun =>
        /\ Get(all_freq, w_cat) = 1
        /\ Get(all_freq, w_catcat) = 1
        /\ Get(all_freq, w_fast) = 1
        /\ IF wn_tags[2] = VERB
           THEN Get(all_freq, w_run) = 2 /\ Get(all_freq, w_running) = 0
           ELSE Get(all_freq, w_run) = 1 /\ Get(all_freq, w_running) = 1
        /\ Keys(all_freq) \subseteq {w_cat, w_catcat, w_fast, w_run, w_running}
        /\ unknown_freq = all_freq
        /\ excluded_freq = <<>>

C5_Witness == ScenarioRun /\ Get(all_freq, w_run) = 2 /\ pc = "done"

\* C6: when extraction raises, or the extracted text is empty or all whitespace,
\* process_pdf gives None without calling clean_and_lemmatize, and the run has
\* exited with status 1 with no table built and no report step invoked.
C6_NoData ==
    (extract_called /\ (text = None \/ WhitespaceOnly(text))) =>
        /\ lemmatized_words = NoData
        /\ ~clean_called
        /\ words = <<>>
        /\ pc = "exited"
        /\ exit_code = 1
        /\ ~tables_built
        /\ reports = <<>>

C6_Witness == extract_called /\ text # None /\ text # <<>> /\ WhitespaceOnly(text)

\* C7: with top_n <= 0, or a document path that is no existing .pdf file, the
\* run never gets past the checks: it is at them or has exited with status 1,
\* and no directory was made, load_known_words was not called, no text was
\* extracted, no table was built and no report step was invoked.
C7_ConfigError ==
    ConfigError =>
        /\ pc \in {"validate", "exited"}
        /\ pc = "exited" => exit_code = 1
        /\ ~dir_made
        /\ ~load_called
        /\ ~extract_called
        /\ ~clean_called
        /\ ~tables_built
        /\ reports = <<>>

C7_Witness == ConfigError /\ pc = "exited" /\ exit_code = 1 /\ top_n <= 0 /\ pdf_isfile

\* the table a top-N report step is made from
TopNTable(step) == IF step = "all_cloud" THEN all_freq ELSE unknown_freq
TopNReports == {r \in Range(reports) : r.step \in {"unknown_csv", "unknown_cloud", "all_cloud"}}

C9_ScopedLookup ==
    clean_called =>
        \A i \in 1..Len(words) :
            LET candidate == Lemmatize(words[i], wn_tags[i])
                found == MorphyScoped(candidate, wn_tags[i])
            IN lemmatized_words[i] = (IF found # None THEN found ELSE candidate)

\* the lemma of word under category pos, with the lookup not scoped
Looked(word, pos) ==
    LET candidate == Lemmatize(word, pos)
        found == Morphy(candidate)
    IN IF found # None THEN found ELSE candidate

\* C9 amended: the lemma of a word is the dictionary lookup of the
\* category-constrained reduction of the word (NOUN for the words of the
\* known-words file), the lookup being made without a category (NOUN, VERB,
\* ADJECTIVE, ADVERB tried in that order), when the lookup gives a form, and the
\* reduction otherwise; there is a lemma for every word.
C9_UnscopedLookup ==
    /\ clean_called =>
         /\ Len(lemmatized_words) = Len(words)
         /\ \A i \in 1..Len(words) :
              /\ lemmatized_words[i] = Looked(words[i], wn_tags[i])
              /\ lemmatized_words[i] # None
    /\ load_called => known_words = {Looked(w, NOUN) : w \in ListedWords}

C9_Witness ==
    /\ clean_called
    /\ load_called /\ known_words # {}
    /\ \E i \in 1..Len(words) :
         /\ Morphy(Lemmatize(words[i], wn_tags[i])) \notin {None, Lemmatize(words[i], wn_tags[i])}
         /\ lemmatized_words[i] = Morphy(Lemmatize(words[i], wn_tags[i]))

\* the extracted text has something other than whitespace in it, and the filter
\* dropped every token of it
AllFiltered == clean_called /\ ~WhitespaceOnly(text) /\ words = <<>>

\* C10: when the text is not all whitespace and the filter drops every token,
\* process_pdf gives an empty lemma stream, not None, the run does not exit at
\* the no-data check, builds three empty tables and invokes every report step.
C10_EmptyStreamReported ==
    AllFiltered =>
        /\ lemmatized_words = <<>>
        /\ pc # "exited"
        /\ tables_built => (excluded_freq = <<>> /\ unknown_freq = <<>> /\ all_freq = <<>>)
        /\ pc \notin {"classify", "report"} =>
             [i \in 1..Len(reports) |-> reports[i].step]
               = <<"unknown_csv", "unknown_cloud", "excluded_csv", "all_csv", "all_cloud">>
====
